---- MODULE Spec2Model ----
(***************************************************************************)
(* Port allocation and lifecycle of the FRP tunnel (base/tunnel.py,        *)
(* impls/tunnel/frp.py) over a Redis store holding the set                 *)
(* frp:used_ports and one key frp:proxy:{name}:port per proxy.             *)
(***************************************************************************)
EXTENDS Integers, FiniteSets, Sequences, TLC

\* ---------------------------------------------------------------- bounds
NumPorts == 3                    \* size of the allowed range (FRP_ALLOWED_PORTS)
LeaseTTL == 2                    \* the 86400 s expiry of a proxy key, in clock ticks

Names == {"a", "b"}              \* proxy names, one tunnel instance per name
NgrokNames == {"g"}              \* proxy name of an NgrokTunnel instance
Tunnels == Names \cup NgrokNames
Kind(t) == IF t \in NgrokNames THEN "ngrok" ELSE "frp"       \* _tunnel_type

\* ------------------------------------------------------------- encodings
None == 0                        \* Python None / a missing key (falsy, as in the code)
Raise == -1                      \* ValueError("no remote port available")
NoExpiry == -1                   \* TTL of a key that has no expiry
KeyAbsent == -2                  \* TTL of a key that does not exist
NoLease == -1                    \* no unreleased reservation of the proxy
NotCached == -2                  \* remote_port has not been computed by the instance

AllowedPorts == 1..NumPorts                  \* get_allowed_ports()
OutOfRange == NumPorts + 1                   \* e.g. the default FRP_REMOTE_PORT 6000
Suggestions == AllowedPorts \cup {OutOfRange}

VARIABLES
    store,        \* Redis: [used, map, ttl, since]
    proc,         \* self._process per instance: "none" | "alive" | "exited"
    childPort,    \* APP_FRP_REMOTE_PORT handed to the spawned child, or None
    crashed,      \* the owner of the name died without calling stop()
    expired,      \* some proxy key has been removed by its TTL
    last,         \* the last call: [op, name, arg, res, ok, pre]
    allocLog,     \* results of the allocate() calls made while nothing was released
    noRelease,    \* no release() since the start
    everReserved, \* ports some allocate() call has reserved so far
    pc,           \* position of a concurrent start() of each tunnel
    sug,          \* FRP_REMOTE_PORT seen by a concurrent start()
    lport,        \* port chosen by a concurrent start()
    phase,        \* which get_remote_port() call of start() is running (1 or 2)
    result,       \* return value of a finished concurrent start()
    raced,        \* a start() read used_ports while another had chosen but not added its port
    overlap,      \* a start() began while another start() was in progress
    orphan,       \* tunnels with a live child that no instance holds a handle of
    cachedPort,   \* the value cached by the remote_port property, or NotCached
    ctx,          \* what the environment did during the last call
    classes,      \* the classes defined in source files, in definition order
    nloaded,      \* how many of them are imported (known to __subclasses__())
    reg,          \* the last registry call and what it returned
    tpc,          \* position of each thread inside start() of one shared instance
    tchild,       \* the child a thread has spawned and not yet recorded
    handle,       \* self._process of the shared instance: a child or None
    alive,        \* the live children spawned by the shared instance
    nspawn,       \* number of children spawned so far
    toverlap,     \* some call on the shared instance began while another ran
    adm,          \* the keys under one prefix: [used, map]
    info          \* the last administrative call and what it returned

vars == <<store, proc, childPort, crashed, expired, last, allocLog, noRelease,
          everReserved, pc, sug, lport, phase, result, raced, overlap,
          orphan, cachedPort, ctx, classes, nloaded, reg, tpc, tchild, handle,
          alive, nspawn, toverlap, adm, info>>

concVars == <<pc, sug, lport, phase, result, raced, overlap>>
allocVars == <<allocLog, noRelease, everReserved>>
lifeVars == <<orphan, cachedPort, ctx>>
regVars == <<classes, nloaded, reg>>
thrVars == <<tpc, tchild, handle, alive, nspawn, toverlap>>
admVars == <<adm, info>>
sideVars == <<regVars, thrVars, admVars>>

\* ------------------------------------------------------- Redis commands
EmptyStore ==
    [used  |-> {},
     map   |-> [n \in Names |-> None],
     ttl   |-> [n \in Names |-> KeyAbsent],
     since |-> [n \in Names |-> NoLease]]

SMembers(st) == st.used

SAddDropped(st, p) == st

SAdd(st, p) == [st EXCEPT !.used = @ \cup {p}]

SRem(st, p) == [st EXCEPT !.used = @ \ {p}]

\* SET overwrites the value and drops any expiry the key had
SetKey(st, n, p) ==
    [st EXCEPT !.map[n] = p, !.ttl[n] = NoExpiry, !.since[n] = 0]

ExpireKey(st, n, t) ==
    IF st.map[n] = None THEN st ELSE [st EXCEPT !.ttl[n] = t]

GetKey(st, n) == st.map[n]

DelKey(st, n) ==
    [st EXCEPT !.map[n] = None, !.ttl[n] = KeyAbsent, !.since[n] = NoLease]

\* one clock tick: keys with an expiry count down and vanish at zero
TickStore(st) ==
    [used  |-> st.used,
     map   |-> [n \in Names |-> IF st.ttl[n] = 1 THEN None ELSE st.map[n]],
     ttl   |-> [n \in Names |->
                  IF st.ttl[n] = 1 THEN KeyAbsent
                  ELSE IF st.ttl[n] > 1 THEN st.ttl[n] - 1 ELSE st.ttl[n]],
     since |-> [n \in Names |->
                  IF st.since[n] = NoLease THEN NoLease
                  ELSE IF st.since[n] > LeaseTTL THEN st.since[n]
                  ELSE st.since[n] + 1]]

\* --------------------------------------------------- BaseTunnel (allocator)
GetUsedPorts(st) == SMembers(st)

ReservePortNoExpire(st, n, p) == SetKey(SAdd(st, p), n, p)

ReservePortNoSAdd(st, n, p) == ExpireKey(SetKey(st, n, p), n, LeaseTTL)

ReservePort(st, n, p) == ExpireKey(SetKey(SAdd(st, p), n, p), n, LeaseTTL)

ReleasePortClearsUsed(st, n, p) == DelKey([st EXCEPT !.used = {}], n)

ReleasePortNoSRem(st, n, p) == DelKey(st, n)

ReleasePortNoDelete(st, n, p) == SRem(st, p)

ReleasePort(st, n, p) == DelKey(SRem(st, p), n)

GetAssignedPort(st, n) == GetKey(st, n)

\* the ports _get_available_port may select, or Raise
ChoosePortIgnoresUsed(used, s) ==
    IF s # None /\ s \in AllowedPorts THEN {s} ELSE AllowedPorts

ChoosePortIgnoresRange(used, s) ==
    IF s # None /\ s \notin used
    THEN {s}
    ELSE IF AllowedPorts \ used = {} THEN {Raise} ELSE AllowedPorts \ used

ChoosePortNeverRaises(used, s) ==
    IF s # None /\ s \notin used /\ s \in AllowedPorts
    THEN {s}
    ELSE IF AllowedPorts \ used = {} THEN AllowedPorts ELSE AllowedPorts \ used

ChoosePort(used, s) ==
    IF s # None /\ s \notin used /\ s \in AllowedPorts
    THEN {s}
    ELSE IF AllowedPorts \ used = {} THEN {Raise} ELSE AllowedPorts \ used

\* outcomes [st, res] of _get_available_port(suggested_port = s) by proxy n
GetAvailablePort(st, n, s) ==
    { IF r = Raise THEN [st |-> st, res |-> Raise]
                   ELSE [st |-> ReservePort(st, n, r), res |-> r]
      : r \in ChoosePort(GetUsedPorts(st), s) }

\* ------------------------------------------------------------- FrpTunnel
GetRemotePortAlwaysAllocates(st, n, s) == GetAvailablePort(st, n, s)

\* outcomes [st, res] of get_remote_port() with FRP_REMOTE_PORT = s
GetRemotePort(st, n, s) ==
    IF GetAssignedPort(st, n) # None
    THEN {[st |-> st, res |-> GetAssignedPort(st, n)]}
    ELSE GetAvailablePort(st, n, s)

IsRunning(n) == proc[n] = "alive"

Call(op, n, arg, res, ok) ==
    [op |-> op, name |-> n, arg |-> arg, res |-> res, ok |-> ok, pre |-> store]

\* the environment of a call: the handle before it, how the child and the
\* store behaved, and the configuration verify_config() looked at
NoCtx ==
    [was |-> "none", fault |-> "none", killed |-> FALSE, spawned |-> FALSE,
     up |-> TRUE, writes |-> 3,
     cfg |-> [name |-> TRUE, port |-> 1, exe |-> TRUE, conf |-> TRUE, addr |-> TRUE]]

\* the threads driving one shared tunnel instance
Threads == {1, 2}

\* caller-supplied proxy names as strings of character codes: "a", "b", "a:b"
AdminNames == {<<97>>, <<98>>, <<97, 58, 98>>}

NoReg ==
    [op |-> "init", arg |-> <<>>, impls |-> <<>>, count |-> 0, ans |-> None,
     made |-> FALSE, err |-> "none"]

NoInfo == [op |-> "init", up |-> TRUE, used |-> {}, allocs |-> {}, ok |-> TRUE]

Init ==
    /\ store = EmptyStore
    /\ proc = [t \in Tunnels |-> "none"]
    /\ childPort = [n \in Names |-> None]
    /\ crashed = [n \in Names |-> FALSE]
    /\ expired = FALSE
    /\ last = [op |-> "init", name |-> "a", arg |-> None, res |-> None,
               ok |-> TRUE, pre |-> EmptyStore]
    /\ allocLog = <<>>
    /\ noRelease = TRUE
    /\ everReserved = {}
    /\ pc = [n \in Names |-> "idle"]
    /\ sug = [n \in Names |-> OutOfRange]
    /\ lport = [n \in Names |-> None]
    /\ phase = [n \in Names |-> 1]
    /\ result = [n \in Names |-> FALSE]
    /\ raced = FALSE
    /\ overlap = FALSE
    /\ orphan = {}
    /\ cachedPort = [t \in Tunnels |-> NotCached]
    /\ ctx = NoCtx
    /\ classes = <<>>
    /\ nloaded = 0
    /\ reg = NoReg
    /\ tpc = [th \in Threads |-> "idle"]
    /\ tchild = [th \in Threads |-> None]
    /\ handle = None
    /\ alive = {}
    /\ nspawn = 0
    /\ toverlap = FALSE
    /\ adm = [used |-> {}, map |-> [n \in AdminNames |-> None]]
    /\ info = NoInfo

\* start(): refused when a handle is recorded; otherwise the environment is
\* built (resolving the remote port), the child spawned, the port logged
Start(n) ==
    /\ \E s \in Suggestions, spawned \in BOOLEAN :
         IF proc[n] # "none"
         THEN /\ last' = Call("start", n, None, None, FALSE)
              /\ UNCHANGED <<store, proc, childPort>>
         ELSE \E o \in GetRemotePort(store, n, s) :
                IF o.res = Raise \/ ~spawned
                THEN /\ store' = o.st
                     /\ last' = Call("start", n, s, o.res, FALSE)
                     /\ UNCHANGED <<proc, childPort>>
                ELSE \E o2 \in GetRemotePort(o.st, n, s) :
                       /\ store' = o2.st
                       /\ proc' = [proc EXCEPT ![n] = "alive"]
                       /\ childPort' = [childPort EXCEPT ![n] = o.res]
                       /\ last' = Call("start", n, s, o.res, o2.res # Raise)
    /\ crashed' = [crashed EXCEPT ![n] = FALSE]
    /\ UNCHANGED <<expired, allocVars, concVars, sideVars, lifeVars>>

\* stop(): terminate and wait for the child, clear the handle, then release
\* the port currently assigned to the proxy
Stop(n) ==
    /\ proc' = [proc EXCEPT ![n] = "none"]
    /\ childPort' = [childPort EXCEPT ![n] = IF proc[n] = "none" THEN @ ELSE None]
    /\ store' = IF GetAssignedPort(store, n) # None
                THEN ReleasePort(store, n, GetAssignedPort(store, n))
                ELSE store
    /\ last' = Call("stop", n, GetAssignedPort(store, n), None, TRUE)
    /\ crashed' = [crashed EXCEPT ![n] = FALSE]
    /\ UNCHANGED <<expired, allocVars, concVars, sideVars, lifeVars>>

\* get_tunnel_info(): resolves the remote port only while running
GetTunnelInfo(n) ==
    /\ IF IsRunning(n)
       THEN \E s \in Suggestions : \E o \in GetRemotePort(store, n, s) :
              /\ store' = o.st
              /\ last' = Call("info", n, s, o.res, o.res # Raise)
       ELSE /\ store' = store
            /\ last' = Call("info", n, None, None, TRUE)
    /\ UNCHANGED <<proc, childPort, crashed, expired, allocVars, concVars, sideVars, lifeVars>>

\* the child exits on its own; the handle stays recorded
ChildExit(n) ==
    /\ proc[n] = "alive"
    /\ proc' = [proc EXCEPT ![n] = "exited"]
    /\ last' = Call("exit", n, None, None, TRUE)
    /\ UNCHANGED <<store, childPort, crashed, expired, allocVars, concVars, sideVars, lifeVars>>

\* the process owning the instance dies without stop(); its lease stays
Crash(n) ==
    /\ proc[n] # "none"
    /\ GetAssignedPort(store, n) # None
    /\ proc' = [proc EXCEPT ![n] = "none"]
    /\ childPort' = [childPort EXCEPT ![n] = None]
    /\ crashed' = [crashed EXCEPT ![n] = TRUE]
    /\ last' = Call("crash", n, GetAssignedPort(store, n), None, TRUE)
    /\ UNCHANGED <<store, expired, allocVars, concVars, sideVars, lifeVars>>

\* time passes in the store
Tick ==
    /\ TickStore(store) # store
    /\ store' = TickStore(store)
    /\ expired' = (expired \/ \E n \in Names : store.ttl[n] = 1)
    /\ last' = Call("tick", "a", None, None, TRUE)
    /\ UNCHANGED <<proc, childPort, crashed, allocVars, concVars, sideVars, lifeVars>>

Next ==
    \/ \E n \in Names : Start(n)
    \/ \E n \in Names : Stop(n)
    \/ \E n \in Names : GetTunnelInfo(n)
    \/ \E n \in Names : ChildExit(n)
    \/ \E n \in Names : Crash(n)
    \/ Tick

Spec == Init /\ [][Next]_vars

\* ------------------------------------------------- sequential tunnel calls
MappedPorts(st) == {st.map[n] : n \in Names} \ {None}

\* C1: under sequential start(), stop() and get_tunnel_info() calls on
\* tunnels with distinct proxy names, no two proxy keys hold the same port.
C1_DistinctMappings ==
    \A n, m \in Names :
        (n # m /\ store.map[n] # None /\ store.map[m] # None)
            => store.map[n] # store.map[m]

\* a start() that suggested the port another proxy holds got a different one
C1_Witness ==
    /\ last.op = "start" /\ last.ok
    /\ \E m \in Names : m # last.name /\ store.map[m] = last.arg
    /\ store.map[last.name] # None
    /\ store.map[last.name] # last.arg

\* C3: while no lease has expired, a port is in used_ports if and only if
\* some proxy key references it.
C3_UsedIffMapped ==
    ~expired => (store.used = MappedPorts(store))

\* a stop() released its port while the other proxy still holds one
C3_Witness ==
    /\ ~expired
    /\ last.op = "stop" /\ last.arg # None
    /\ last.arg \notin store.used
    /\ store.used # {}

\* C7: once the lease of a crashed proxy has expired, its port is no longer
\* in used_ports.
C7_ExpiredLeaseReclaimed ==
    \A n \in Names :
        (crashed[n] /\ last.op = "tick"
           /\ last.pre.map[n] # None /\ store.map[n] = None)
            => last.pre.map[n] \notin store.used

\* C8: a lease that was reserved LeaseTTL ticks ago and never released is
\* absent from the proxy key: assignedPort() returns None.
C8_LeaseGoneAfterTTL ==
    \A n \in Names :
        store.since[n] >= LeaseTTL => GetAssignedPort(store, n) = None

\* the TTL of an unreleased lease has just run out
C8_Witness ==
    /\ last.op = "tick"
    /\ \E n \in Names :
         /\ last.pre.map[n] # None
         /\ store.since[n] = LeaseTTL
         /\ GetAssignedPort(store, n) = None

\* ------------------------------------------------ direct allocator calls
\* allocate(s): _get_available_port(s) called by proxy n (s = None: no suggestion)
Allocate(n, s) ==
    /\ \E o \in GetAvailablePort(store, n, s) :
         /\ store' = o.st
         /\ last' = Call("allocate", n, s, o.res, o.res # Raise)
         /\ allocLog' = IF noRelease /\ Len(allocLog) <= NumPorts
                        THEN Append(allocLog, [res |-> o.res, same |-> o.st = store])
                        ELSE allocLog
         /\ everReserved' = IF o.res = Raise THEN everReserved
                            ELSE everReserved \cup {o.res}
    /\ UNCHANGED <<proc, childPort, crashed, expired, noRelease, concVars, sideVars, lifeVars>>

\* release(q): _release_port(q) called by proxy n
Release(n, q) ==
    /\ store' = ReleasePort(store, n, q)
    /\ last' = Call("release", n, q, None, TRUE)
    /\ noRelease' = FALSE
    /\ allocLog' = <<>>
    /\ UNCHANGED <<proc, childPort, crashed, expired, everReserved, concVars, sideVars, lifeVars>>

NextAlloc ==
    \/ \E n \in Names, s \in Suggestions \cup {None} : Allocate(n, s)
    \/ \E n \in Names, q \in Suggestions : Release(n, q)

SpecAlloc == Init /\ [][NextAlloc]_vars

\* C4: allocate(s) returns s iff s is free and in range; in every other
\* case it returns some port of the range that is not used.
C4_SuggestedIffFree ==
    last.op = "allocate" =>
        LET U == last.pre.used
            s == last.arg
        IN /\ (last.res = s) <=> (s \notin U /\ s \in AllowedPorts)
           /\ last.res # s => last.res \in AllowedPorts \ U

\* C4 as amended: when no port of the range is free and the suggestion is
\* not taken, allocate raises and leaves the store alone.
C4_SuggestedIffFreeOrExhausted ==
    last.op = "allocate" =>
        LET U == last.pre.used
            s == last.arg
        IN /\ (last.res = s) <=> (s \notin U /\ s \in AllowedPorts)
           /\ last.res # s =>
                IF AllowedPorts \ U = {}
                THEN last.res = Raise /\ store = last.pre
                ELSE last.res \in AllowedPorts \ U

\* a suggestion that was already used fell back to a free port of the range
C4_Witness ==
    /\ last.op = "allocate"
    /\ last.arg \in last.pre.used
    /\ last.res \in AllowedPorts \ last.pre.used

C6_ExhaustsAfterN ==
    noRelease =>
        \A i \in 1..Len(allocLog) :
            /\ i <= NumPorts =>
                 /\ allocLog[i].res \in AllowedPorts
                 /\ \A j \in 1..(i - 1) : allocLog[j].res # allocLog[i].res
            /\ i = NumPorts + 1 =>
                 /\ allocLog[i].res = Raise
                 /\ allocLog[i].same

\* the call after the range was used up has been made
C6_Witness ==
    /\ noRelease
    /\ Len(allocLog) = NumPorts + 1
    /\ last.op = "allocate" /\ last.res = Raise
    /\ last.pre.used = AllowedPorts

\* C9: after release(p) by the proxy whose key holds p, p is not in
\* used_ports and assignedPort() of that proxy returns None.
C9_ReleaseClearsLease ==
    (last.op = "release" /\ last.pre.map[last.name] = last.arg) =>
        /\ last.arg \notin store.used
        /\ GetAssignedPort(store, last.name) = None

\* a reserved port was released by its holder
C9_Witness ==
    /\ last.op = "release"
    /\ last.pre.map[last.name] = last.arg
    /\ last.arg \in last.pre.used
    /\ last.arg \notin store.used

\* C10: release(q) of a port that was never reserved leaves the whole store
\* unchanged.
C10_ReleaseUnreservedNoOp ==
    (last.op = "release" /\ last.arg \notin everReserved) => store = last.pre

\* ------------------------------------------- concurrent start() calls
\* Each Redis command of start() is one step; the steps of different
\* tunnels interleave freely.
seqVars == <<crashed, expired, last, allocVars, lifeVars, sideVars>>

InProgress(n) == pc[n] \notin {"idle", "done"}

\* where get_remote_port() returns to: the Popen of start() after the call
\* in _build_env, the end of start() after the call in the log line
AfterRemotePort(n) ==
    IF phase[n] = 1
    THEN /\ pc' = [pc EXCEPT ![n] = "spawn"]
         /\ UNCHANGED result
    ELSE /\ pc' = [pc EXCEPT ![n] = "done"]
         /\ result' = [result EXCEPT ![n] = TRUE]

\* start() is entered: the handle test
CStart(n, s) ==
    /\ pc[n] = "idle"
    /\ IF proc[n] = "none"
       THEN /\ pc' = [pc EXCEPT ![n] = "get"]
            /\ sug' = [sug EXCEPT ![n] = s]
            /\ phase' = [phase EXCEPT ![n] = 1]
            /\ UNCHANGED result
       ELSE /\ pc' = [pc EXCEPT ![n] = "done"]
            /\ result' = [result EXCEPT ![n] = FALSE]
            /\ UNCHANGED <<sug, phase>>
    /\ overlap' = (overlap \/ \E m \in Names \ {n} : InProgress(m))
    /\ UNCHANGED <<store, proc, childPort, lport, raced, seqVars>>

\* get_remote_port(): GET of the proxy key
CGet(n) ==
    /\ pc[n] = "get"
    /\ IF GetAssignedPort(store, n) # None
       THEN /\ lport' = [lport EXCEPT ![n] = GetAssignedPort(store, n)]
            /\ AfterRemotePort(n)
       ELSE /\ pc' = [pc EXCEPT ![n] = "smembers"]
            /\ UNCHANGED <<lport, result>>
    /\ UNCHANGED <<store, proc, childPort, sug, phase, raced, overlap, seqVars>>

\* _get_available_port(): SMEMBERS, then the choice of the port
CSMembers(n) ==
    /\ pc[n] = "smembers"
    /\ \E r \in ChoosePort(GetUsedPorts(store), sug[n]) :
         IF r = Raise
         THEN /\ pc' = [pc EXCEPT ![n] = "done"]
              /\ result' = [result EXCEPT ![n] = FALSE]
              /\ UNCHANGED <<lport, raced>>
         ELSE /\ pc' = [pc EXCEPT ![n] = "sadd"]
              /\ lport' = [lport EXCEPT ![n] = r]
              /\ raced' = (raced \/ \E m \in Names \ {n} : pc[m] = "sadd")
              /\ UNCHANGED result
    /\ UNCHANGED <<store, proc, childPort, sug, phase, overlap, seqVars>>

\* _reserve_port(): SADD
CSAdd(n) ==
    /\ pc[n] = "sadd"
    /\ store' = SAdd(store, lport[n])
    /\ pc' = [pc EXCEPT ![n] = "set"]
    /\ UNCHANGED <<proc, childPort, sug, lport, phase, result, raced, overlap, seqVars>>

\* _reserve_port(): SET of the proxy key
CSet(n) ==
    /\ pc[n] = "set"
    /\ store' = SetKey(store, n, lport[n])
    /\ pc' = [pc EXCEPT ![n] = "expire"]
    /\ UNCHANGED <<proc, childPort, sug, lport, phase, result, raced, overlap, seqVars>>

\* _reserve_port(): EXPIRE of the proxy key
CExpire(n) ==
    /\ pc[n] = "expire"
    /\ store' = ExpireKey(store, n, LeaseTTL)
    /\ AfterRemotePort(n)
    /\ UNCHANGED <<proc, childPort, sug, lport, phase, raced, overlap, seqVars>>

\* subprocess.Popen with the built environment; a failure ends start()
CSpawn(n) ==
    /\ pc[n] = "spawn"
    /\ \E spawned \in BOOLEAN :
         IF spawned
         THEN /\ proc' = [proc EXCEPT ![n] = "alive"]
              /\ childPort' = [childPort EXCEPT ![n] = lport[n]]
              /\ phase' = [phase EXCEPT ![n] = 2]
              /\ pc' = [pc EXCEPT ![n] = "get"]
              /\ UNCHANGED result
         ELSE /\ pc' = [pc EXCEPT ![n] = "done"]
              /\ result' = [result EXCEPT ![n] = FALSE]
              /\ UNCHANGED <<proc, childPort, phase>>
    /\ UNCHANGED <<store, sug, lport, raced, overlap, seqVars>>

\* start() has returned; the caller may call it again
CReturn(n) ==
    /\ pc[n] = "done"
    /\ pc' = [pc EXCEPT ![n] = "idle"]
    /\ UNCHANGED <<store, proc, childPort, sug, lport, phase, result, raced,
                   overlap, seqVars>>

NextConc ==
    \/ \E n \in Names, s \in Suggestions : CStart(n, s)
    \/ \E n \in Names : CGet(n)
    \/ \E n \in Names : CSMembers(n)
    \/ \E n \in Names : CSAdd(n)
    \/ \E n \in Names : CSet(n)
    \/ \E n \in Names : CExpire(n)
    \/ \E n \in Names : CSpawn(n)
    \/ \E n \in Names : CReturn(n)

SpecConc == Init /\ [][NextConc]_vars

BothStarted == \A n \in Names : pc[n] = "done" /\ result[n] /\ proc[n] = "alive"

DistinctRemotePorts ==
    \A n, m \in Names :
        n # m => /\ childPort[n] # childPort[m]
                 /\ GetAssignedPort(store, n) # GetAssignedPort(store, m)

\* C2: concurrent start() calls of two tunnels with distinct proxy names
\* always end with the two tunnels holding two distinct remote ports.
C2_ConcurrentStartsDistinct ==
    BothStarted => DistinctRemotePorts

\* C2 as amended: the ports are distinct unless one start() read used_ports
\* after the other had chosen its port and before it added that port.
C2_DistinctUnlessRaced ==
    (BothStarted /\ ~raced) => DistinctRemotePorts

\* two overlapping start() calls with the same suggestion, run without the
\* race, ended with different ports
C2_Witness ==
    /\ BothStarted /\ overlap /\ ~raced
    /\ \A n, m \in Names : sug[n] = sug[m]
    /\ \A n \in Names : sug[n] \in AllowedPorts
    /\ DistinctRemotePorts

\* ------------------------------------------ lifecycle of both backends
\* start(), stop(), __del__, remote_port and verify_config() of FrpTunnel
\* and NgrokTunnel, with the child and the operating system free to
\* misbehave: Popen may fail, the child may ignore terminate(), and
\* terminate(), kill() or the wait() after kill() may raise.
LocalPort == 8080                \* local_port of the ngrok instance
MaxPortNumber == 65535           \* upper end of the valid local ports

\* range(a, b) of Python: a, ..., b - 1
Range(a, b) == a..(b - 1)

\* NgrokTunnel.get_allowed_ports()
NgrokGetAllowedPorts == Range(1, 65536)

\* NgrokTunnel.get_remote_port(): the local port stands for the remote one
NgrokGetRemotePortNone(localPort) == None

NgrokGetRemotePort(localPort) == localPort

Ctx(was, fault, killed) ==
    [NoCtx EXCEPT !.was = was, !.fault = fault, !.killed = killed]

\* the test `self._process is None` of start(), `if self._process` of stop()
HandleRecordedNever(h) == FALSE

HandleRecorded(h) == h # "none"

\* the handle after the Popen call of start(): assigned only if Popen returned
AfterSpawnAlwaysRecords(h, spawned) == IF spawned THEN "alive" ELSE "exited"

AfterSpawn(h, spawned) == IF spawned THEN "alive" ELSE h

\* what the child and the system may do during stop() of a recorded handle
StopFaults(h) ==
    IF h = "alive"
    THEN {"exits", "ignores", "termfail", "killfail", "waitfail"}
    ELSE {"exits"}

\* terminate(), wait(timeout=5), on TimeoutExpired kill() and wait(), then
\* the handle is cleared; an exception leaves stop() before that
StopProcessNoEscalation(h, fault) ==
    CASE fault = "exits"    -> [h |-> "none",   killed |-> FALSE, raised |-> FALSE]
      [] fault = "ignores"  -> [h |-> h,        killed |-> FALSE, raised |-> TRUE]
      [] fault = "termfail" -> [h |-> h,        killed |-> FALSE, raised |-> TRUE]
      [] fault = "killfail" -> [h |-> h,        killed |-> FALSE, raised |-> TRUE]
      [] fault = "waitfail" -> [h |-> h,        killed |-> FALSE, raised |-> TRUE]

StopProcess(h, fault) ==
    CASE fault = "exits"    -> [h |-> "none",   killed |-> FALSE, raised |-> FALSE]
      [] fault = "ignores"  -> [h |-> "none",   killed |-> TRUE,  raised |-> FALSE]
      [] fault = "termfail" -> [h |-> h,        killed |-> FALSE, raised |-> TRUE]
      [] fault = "killfail" -> [h |-> h,        killed |-> TRUE,  raised |-> TRUE]
      [] fault = "waitfail" -> [h |-> "exited", killed |-> TRUE,  raised |-> TRUE]

\* the port release at the end of FrpTunnel.stop(); NgrokTunnel.stop() has none
StopReleaseSkipped(st, t) == st

StopRelease(st, t) ==
    IF Kind(t) = "frp" /\ GetAssignedPort(st, t) # None
    THEN ReleasePort(st, t, GetAssignedPort(st, t))
    ELSE st

AssignedOf(st, t) == IF Kind(t) = "frp" THEN GetAssignedPort(st, t) ELSE None

\* the effect of stop() on handle and store, and its return value
StopOutcome(st, h, t, fault) ==
    IF HandleRecorded(h)
    THEN LET o == StopProcess(h, fault)
         IN IF o.raised
            THEN [st |-> st, h |-> o.h, killed |-> o.killed, ok |-> FALSE]
            ELSE [st |-> StopRelease(st, t), h |-> o.h, killed |-> o.killed,
                  ok |-> TRUE]
    ELSE [st |-> StopRelease(st, t), h |-> h, killed |-> FALSE, ok |-> TRUE]

FaultsFor(h) == IF HandleRecorded(h) THEN StopFaults(h) ELSE {"none"}

LStart(t) ==
    /\ \E s \in Suggestions, spawned \in BOOLEAN :
         IF HandleRecorded(proc[t])
         THEN /\ last' = Call("start", t, None, None, FALSE)
              /\ ctx' = Ctx(proc[t], "none", FALSE)
              /\ UNCHANGED <<store, proc, childPort>>
         ELSE IF Kind(t) = "ngrok"
         THEN /\ proc' = [proc EXCEPT ![t] = AfterSpawn(proc[t], spawned)]
              /\ last' = Call("start", t, None, None, spawned)
              /\ ctx' = [Ctx(proc[t], IF spawned THEN "none" ELSE "spawnfail", FALSE)
                            EXCEPT !.spawned = spawned]
              /\ UNCHANGED <<store, childPort>>
         ELSE \E o \in GetRemotePort(store, t, s) :
                IF o.res = Raise
                THEN /\ last' = Call("start", t, s, Raise, FALSE)
                     /\ ctx' = Ctx(proc[t], "none", FALSE)
                     /\ UNCHANGED <<store, proc, childPort>>
                ELSE IF ~spawned
                THEN /\ store' = o.st
                     /\ proc' = [proc EXCEPT ![t] = AfterSpawn(proc[t], FALSE)]
                     /\ last' = Call("start", t, s, o.res, FALSE)
                     /\ ctx' = Ctx(proc[t], "spawnfail", FALSE)
                     /\ UNCHANGED childPort
                ELSE \E o2 \in GetRemotePort(o.st, t, s) :
                       /\ store' = o2.st
                       /\ proc' = [proc EXCEPT ![t] = AfterSpawn(proc[t], TRUE)]
                       /\ childPort' = [childPort EXCEPT ![t] = o.res]
                       /\ last' = Call("start", t, s, o.res, o2.res # Raise)
                       /\ ctx' = [Ctx(proc[t], "none", FALSE) EXCEPT !.spawned = TRUE]
    /\ UNCHANGED <<crashed, expired, allocVars, concVars, sideVars, orphan, cachedPort>>

LStop(t) ==
    /\ \E fault \in FaultsFor(proc[t]) :
         LET o == StopOutcome(store, proc[t], t, fault)
         IN /\ store' = o.st
            /\ proc' = [proc EXCEPT ![t] = o.h]
            /\ childPort' = IF t \in Names /\ proc[t] # "none" /\ o.h = "none"
                            THEN [childPort EXCEPT ![t] = None]
                            ELSE childPort
            /\ last' = Call("stop", t, AssignedOf(store, t), None, o.ok)
            /\ ctx' = Ctx(proc[t], fault, o.killed)
    /\ UNCHANGED <<crashed, expired, allocVars, concVars, sideVars, orphan, cachedPort>>

\* __del__: the instance is discarded, stop() runs; a child that survived
\* it is left without a handle, and the name is free for a new instance
LDiscard(t) ==
    /\ \E fault \in FaultsFor(proc[t]) :
         LET o == StopOutcome(store, proc[t], t, fault)
         IN /\ store' = o.st
            /\ proc' = [proc EXCEPT ![t] = "none"]
            /\ orphan' = IF o.h = "alive" THEN orphan \cup {t} ELSE orphan
            /\ childPort' = IF t \in Names /\ o.h # "alive"
                            THEN [childPort EXCEPT ![t] = None]
                            ELSE childPort
            /\ last' = Call("discard", t, AssignedOf(store, t), None, o.ok)
            /\ ctx' = Ctx(proc[t], fault, o.killed)
    /\ cachedPort' = [cachedPort EXCEPT ![t] = NotCached]
    /\ UNCHANGED <<crashed, expired, allocVars, concVars, sideVars>>

LChildExit(t) ==
    /\ proc[t] = "alive"
    /\ proc' = [proc EXCEPT ![t] = "exited"]
    /\ last' = Call("exit", t, None, None, TRUE)
    /\ ctx' = Ctx("alive", "none", FALSE)
    /\ UNCHANGED <<store, childPort, crashed, expired, allocVars, concVars, sideVars,
                   orphan, cachedPort>>

\* get_remote_port() called directly, whether the tunnel runs or not
LResolve(t) ==
    /\ IF Kind(t) = "ngrok"
       THEN /\ last' = Call("resolve", t, None, NgrokGetRemotePort(LocalPort), TRUE)
            /\ UNCHANGED store
       ELSE \E s \in Suggestions : \E o \in GetRemotePort(store, t, s) :
              /\ store' = o.st
              /\ last' = Call("resolve", t, s, o.res, o.res # Raise)
    /\ ctx' = Ctx(proc[t], "none", FALSE)
    /\ UNCHANGED <<proc, childPort, crashed, expired, allocVars, concVars, sideVars,
                   orphan, cachedPort>>

\* the remote_port cached property: computed on the first read only
LRead(t) ==
    /\ IF cachedPort[t] # NotCached
       THEN /\ last' = Call("read", t, None, cachedPort[t], TRUE)
            /\ UNCHANGED <<store, cachedPort>>
       ELSE IF ~IsRunning(t)
       THEN /\ last' = Call("read", t, None, None, TRUE)
            /\ cachedPort' = [cachedPort EXCEPT ![t] = None]
            /\ UNCHANGED store
       ELSE IF Kind(t) = "ngrok"
       THEN /\ last' = Call("read", t, None, NgrokGetRemotePort(LocalPort), TRUE)
            /\ cachedPort' = [cachedPort EXCEPT ![t] = NgrokGetRemotePort(LocalPort)]
            /\ UNCHANGED store
       ELSE \E s \in Suggestions : \E o \in GetRemotePort(store, t, s) :
              /\ store' = o.st
              /\ last' = Call("read", t, s, o.res, o.res # Raise)
              /\ cachedPort' = IF o.res = Raise THEN cachedPort
                               ELSE [cachedPort EXCEPT ![t] = o.res]
    /\ ctx' = Ctx(proc[t], "none", FALSE)
    /\ UNCHANGED <<proc, childPort, crashed, expired, allocVars, concVars, sideVars, orphan>>

\* verify_config(): the checks of BaseTunnel, then those of FrpTunnel
LocalPortSamples == {0, 1, MaxPortNumber, MaxPortNumber + 1}

Configs ==
    [name : BOOLEAN, port : LocalPortSamples,
     exe : BOOLEAN, conf : BOOLEAN, addr : BOOLEAN]

BaseVerifyConfigOffByOne(cfg) ==
    cfg.name /\ 1 <= cfg.port /\ cfg.port <= MaxPortNumber + 1

BaseVerifyConfig(cfg) ==
    cfg.name /\ 1 <= cfg.port /\ cfg.port <= MaxPortNumber

VerifyConfig(kind, cfg) ==
    IF ~BaseVerifyConfig(cfg) THEN FALSE
    ELSE IF kind = "frp" THEN cfg.exe /\ cfg.conf /\ cfg.addr
    ELSE TRUE

\* verify_config() of an instance whose configuration is cfg
\* (name: proxy_name is not empty; exe, conf: the paths exist; addr: the
\* server address is set)
LVerify(t, cfg) ==
    /\ last' = Call("verify", t, None, None, VerifyConfig(Kind(t), cfg))
    /\ ctx' = [Ctx(proc[t], "none", FALSE) EXCEPT !.cfg = cfg]
    /\ UNCHANGED <<store, proc, childPort, crashed, expired, allocVars, concVars, sideVars,
                   orphan, cachedPort>>

\* the instances driven here: one FrpTunnel and one NgrokTunnel
LifeTunnels == {"a"} \cup NgrokNames

NextLife ==
    \/ \E t \in LifeTunnels : LResolve(t)
    \/ \E t \in LifeTunnels : LStart(t)
    \/ \E t \in LifeTunnels : LChildExit(t)
    \/ \E t \in LifeTunnels : LStop(t)
    \/ \E t \in LifeTunnels : LDiscard(t)
    \/ \E t \in LifeTunnels : LRead(t)

SpecLife == Init /\ [][NextLife]_vars

\* verify_config() called in the states that start() and stop() produce
NextVerify ==
    \/ \E t \in LifeTunnels, cfg \in Configs : LVerify(t, cfg)
    \/ \E t \in LifeTunnels : LStart(t)
    \/ \E t \in LifeTunnels : LStop(t)

SpecVerify == Init /\ [][NextVerify]_vars

\* C11: start() on a running instance returns false, spawns no second
\* process and leaves the recorded handle unchanged.
C11_StartWhileRunningRefused ==
    (last.op = "start" /\ ctx.was = "alive") =>
        /\ ~last.ok
        /\ ~ctx.spawned
        /\ proc[last.name] = "alive"
        /\ store = last.pre

\* start() was called on a running tunnel of each backend
C11_Witness ==
    /\ last.op = "start" /\ ctx.was = "alive"
    /\ \A t \in LifeTunnels : proc[t] = "alive"

\* C12: start() refuses only when the tunnel is running; in every other
\* state (no handle, or a handle whose child has exited) and with a
\* launchable executable it spawns a child, records it and returns true.
C12_StartRefusesOnlyWhenRunning ==
    (last.op = "start" /\ ctx.was # "alive"
        /\ ctx.fault # "spawnfail" /\ last.res # Raise) =>
        /\ last.ok
        /\ ctx.spawned
        /\ proc[last.name] = "alive"

\* C13: when the child ignores terminate() for the whole grace period,
\* stop() force-kills it, and afterwards the handle is cleared, the tunnel
\* is not running and the port lease of the proxy is released.
C13_IgnoredTerminateEscalates ==
    (last.op = "stop" /\ ctx.was = "alive" /\ ctx.fault = "ignores") =>
        /\ ctx.killed
        /\ last.ok
        /\ proc[last.name] = "none"
        /\ ~IsRunning(last.name)
        /\ AssignedOf(store, last.name) = None
        /\ last.arg # None => last.arg \notin store.used

\* a force-killed FRP child whose proxy held a lease
C13_Witness ==
    /\ last.op = "stop" /\ ctx.was = "alive" /\ ctx.fault = "ignores"
    /\ ctx.killed
    /\ last.arg # None
    /\ last.arg \in last.pre.used
    /\ last.arg \notin store.used

\* C14: after every stop() call, also when terminate(), kill() or wait()
\* failed, the process handle is cleared.
C14_StopAlwaysClearsHandle ==
    last.op = "stop" => proc[last.name] = "none"

\* C15: stop() on an instance without a process handle returns true and
\* changes neither the instance nor the shared store.
C15_StopWithoutHandleNoOp ==
    (last.op = "stop" /\ ctx.was = "none") =>
        /\ last.ok
        /\ proc[last.name] = "none"
        /\ store = last.pre

\* C15 as amended: the store is unchanged when the proxy has no lease;
\* a lease the proxy still has is released and nothing else changes.
C15_StopWithoutHandleReleasesOnly ==
    (last.op = "stop" /\ ctx.was = "none") =>
        /\ last.ok
        /\ proc[last.name] = "none"
        /\ IF AssignedOf(last.pre, last.name) = None
           THEN store = last.pre
           ELSE /\ store.used = last.pre.used \ {last.arg}
                /\ AssignedOf(store, last.name) = None
                /\ \A n \in Names \ {last.name} :
                     /\ store.map[n] = last.pre.map[n]
                     /\ store.ttl[n] = last.pre.ttl[n]

\* stop() of an FRP instance whose start() had reserved a port and then
\* failed to spawn
C15_Witness ==
    /\ last.op = "stop" /\ ctx.was = "none"
    /\ last.arg # None
    /\ last.arg \in last.pre.used
    /\ AssignedOf(store, last.name) = None

\* C16: after an instance is discarded its child is not alive and its port
\* lease is not in the store.
C16_DiscardStopsAndReleases ==
    last.op = "discard" =>
        /\ last.name \notin orphan
        /\ AssignedOf(store, last.name) = None
        /\ last.arg # None => last.arg \notin store.used

\* the port the backend resolves for a running tunnel
ResolvedPort(st, t) ==
    IF Kind(t) = "ngrok" THEN LocalPort ELSE GetAssignedPort(st, t)

\* C17: every read of remote_port gives None when the tunnel is not running
\* and the resolved remote port when it is.
C17_RemotePortTracksRunning ==
    (last.op = "read" /\ last.res # Raise) =>
        last.res = IF IsRunning(last.name)
                   THEN ResolvedPort(store, last.name) ELSE None

\* C18: when spawning the child fails, start() returns false, records no
\* handle and the tunnel is not running.
C18_SpawnFailureReturnsFalse ==
    (last.op = "start" /\ ctx.fault = "spawnfail") =>
        /\ ~last.ok
        /\ ~ctx.spawned
        /\ proc[last.name] = "none"
        /\ ~IsRunning(last.name)

\* a failed spawn of the FRP backend, after the port had been resolved
C18_Witness ==
    /\ last.op = "start" /\ ctx.fault = "spawnfail"
    /\ Kind(last.name) = "frp"
    /\ last.res \in AllowedPorts
    /\ ~last.ok

\* C19: verify_config() changes nothing, and returns true only when the
\* proxy name is not empty, the local port is in 1..65535 and, for FRP, the
\* executable and the configuration file exist and a server address is set.
C19_VerifyConfigChecks ==
    last.op = "verify" =>
        /\ last.ok =>
             /\ ctx.cfg.name
             /\ ctx.cfg.port \in 1..MaxPortNumber
             /\ Kind(last.name) = "frp" =>
                  ctx.cfg.exe /\ ctx.cfg.conf /\ ctx.cfg.addr
        /\ store = last.pre
        /\ proc[last.name] = ctx.was

\* an FRP configuration that is valid except for a missing executable was
\* rejected while the tunnel was not running
C19_Witness ==
    /\ last.op = "verify" /\ Kind(last.name) = "frp"
    /\ ctx.cfg.name /\ ctx.cfg.port = MaxPortNumber
    /\ ~ctx.cfg.exe /\ ctx.cfg.conf /\ ctx.cfg.addr
    /\ ~last.ok
    /\ proc[last.name] = "none"

\* ------------------------------------------------ allocation during an outage
\* Every store command of the allocator sits in a try/except: a failed
\* SMEMBERS yields the empty set, a failed write ends _reserve_port early.
MaxWrites == 3                   \* SADD, SET and EXPIRE of _reserve_port

UsedPortsSeenFailsClosed(st, up) == IF up THEN SMembers(st) ELSE AllowedPorts

\* _get_used_ports() when the store answers (up) or raises
UsedPortsSeen(st, up) == IF up THEN SMembers(st) ELSE {}

\* _reserve_port() when only the first k store commands succeed
ReserveUpTo(st, n, p, k) ==
    CASE k = 0 -> st
      [] k = 1 -> SAdd(st, p)
      [] k = 2 -> SetKey(SAdd(st, p), n, p)
      [] OTHER -> ReservePort(st, n, p)

\* allocate(s) by proxy n; the store may be unreachable for the read (~up)
\* and fail after k of the reservation writes
OAllocate(n, s, up, k) ==
    /\ \E r \in ChoosePort(UsedPortsSeen(store, up), s) :
         /\ store' = IF r = Raise THEN store ELSE ReserveUpTo(store, n, r, k)
         /\ last' = Call("allocate", n, s, r, r # Raise)
    /\ ctx' = [NoCtx EXCEPT !.up = up, !.writes = k]
    /\ UNCHANGED <<proc, childPort, crashed, expired, allocVars, concVars, sideVars,
                   orphan, cachedPort>>

NextOutage ==
    \E n \in Names, s \in Suggestions \cup {None}, up \in BOOLEAN,
       k \in 0..MaxWrites : OAllocate(n, s, up, k)

SpecOutage == Init /\ [][NextOutage]_vars

\* C20: when the read of used_ports fails, allocate still returns a port of
\* the allowed range, the suggested one if it is in range; allocate raises
\* only when the store could be read and shows no free port, never because
\* a reservation write failed.
C20_OutageStillAllocates ==
    last.op = "allocate" =>
        /\ ~ctx.up =>
             /\ last.res \in AllowedPorts
             /\ last.arg \in AllowedPorts => last.res = last.arg
        /\ last.res = Raise =>
             /\ ctx.up
             /\ AllowedPorts \subseteq last.pre.used
             /\ store = last.pre

\* with the store unreachable a suggested port that is in use was handed
\* out again, and its reservation was not written
C20_Witness ==
    /\ last.op = "allocate"
    /\ ~ctx.up /\ ctx.writes = 0
    /\ last.arg \in last.pre.used
    /\ last.res = last.arg
    /\ store = last.pre

\* ------------------------------------------------ BaseRegistry (discovery)
\* getImpls() walks __subclasses__() downwards from the contract class,
\* skips class ids already seen and classes with abstract methods, and
\* lists a descriptor for every other class.  Strings are sequences of
\* character codes.
MaxClasses == 3                  \* classes defined in source files
MaxLookupClasses == 2            \* classes defined where lookups are made

Contract == -1                   \* cls, the class getImpls() is called on
NoTag == <<>>                    \* no type attribute declared (falsy, like "")
Module == 1                      \* __module__ of the classes

\* str.lower() on ASCII
LowerChar(c) == IF c \in 65..90 THEN c + 32 ELSE c

Lower(s) == [i \in DOMAIN s |-> LowerChar(s[i])]

\* __name__ of the k-th class: "T1", "t1", "T2", "t2", ...
ClassName(k) == <<IF k % 2 = 1 THEN 84 ELSE 116, 48 + (k + 1) \div 2>>

\* class_id = f"{__module__}.{__name__}"
ClassId(k) == <<Module, ClassName(k)>>

TagSamples == {<<70>>}           \* the declared type tag "F"

\* the classes __subclasses__() knows: those whose module is imported
Loaded == SubSeq(classes, 1, nloaded)

DirectSubclasses(cs, base) == {k \in DOMAIN cs : base \in cs[k].bases}

RECURSIVE GetAllSubclasses(_, _)
GetAllSubclasses(cs, base) ==
    UNION {{d} \cup GetAllSubclasses(cs, d) : d \in DirectSubclasses(cs, base)}

Min(S) == CHOOSE x \in S : \A y \in S : x <= y

\* getattr(impl_class, "_{base}_type" / "_type" / "_impl_type"): the
\* attribute of the class itself, else of the first base that has one
RECURSIVE AttrTag(_, _)
AttrTag(cs, k) ==
    IF k = Contract THEN NoTag
    ELSE IF cs[k].tag # NoTag THEN cs[k].tag
    ELSE LET inherited == [b \in cs[k].bases |-> AttrTag(cs, b)]
             having == {b \in cs[k].bases : inherited[b] # NoTag}
         IN IF having = {} THEN NoTag ELSE inherited[Min(having)]

\* the declared tag, else the lower-cased class name (the names used here
\* contain neither the contract's name nor "impl")
ImplType(cs, k) ==
    LET declared == AttrTag(cs, k)
    IN IF declared # NoTag THEN declared ELSE Lower(ClassName(k))

Descriptor(cs, k) ==
    [name |-> ClassName(k), class |-> k, module |-> Module,
     type |-> ImplType(cs, k), class_id |-> ClassId(k)]

SkipAbstractNever(c) == FALSE

\* getattr(impl_class, "__abstractmethods__", None) is not empty
SkipAbstract(c) == c.abstract

\* the loop over all_subclasses, in the order the set is iterated; ds holds
\* the descriptor each class would get
RECURSIVE ScanClasses(_, _, _, _, _)
ScanClasses(cs, ds, order, seen, impls) ==
    IF order = <<>> THEN impls
    ELSE LET k == Head(order)
         IN IF ClassId(k) \in seen
            THEN ScanClasses(cs, ds, Tail(order), seen, impls)
            ELSE IF SkipAbstract(cs[k])
            THEN ScanClasses(cs, ds, Tail(order), seen \cup {ClassId(k)}, impls)
            ELSE ScanClasses(cs, ds, Tail(order), seen \cup {ClassId(k)},
                             Append(impls, ds[k]))

\* the orders in which a set may be iterated
RECURSIVE Orders(_)
Orders(S) ==
    IF S = {} THEN {<<>>}
    ELSE UNION {{<<x>> \o rest : rest \in Orders(S \ {x})} : x \in S}

\* the results getImpls() may return over the loaded classes cs
GetImpls(cs) ==
    LET ds == [k \in DOMAIN cs |-> Descriptor(cs, k)]
    IN {ScanClasses(cs, ds, order, {}, <<>>) :
            order \in Orders(GetAllSubclasses(cs, Contract))}

RegCall(op, arg, impls, ans, made, err) ==
    [op |-> op, arg |-> arg, impls |-> impls, count |-> Len(impls), ans |-> ans,
     made |-> made, err |-> err]

\* a source file defining one more class: its bases are the contract or
\* classes defined before it
DefineClass(bases, abstract, tag) ==
    /\ Len(classes) < MaxClasses
    /\ bases # {}
    /\ bases \subseteq {Contract} \cup (1..Len(classes))
    /\ classes' = Append(classes, [bases |-> bases, abstract |-> abstract, tag |-> tag])
    /\ reg' = RegCall("define", <<>>, <<>>, None, FALSE, "none")
    /\ UNCHANGED nloaded

\* _auto_import_implementations(): every module of the scan directory that
\* is not imported yet is imported (classes holds the importable ones)
AutoImport(auto) ==
    /\ nloaded' = IF auto THEN Len(classes) ELSE nloaded
    /\ UNCHANGED classes

\* getImpls(auto_import = auto)
DiscoverImpls(auto) ==
    /\ AutoImport(auto)
    /\ \E impls \in GetImpls(SubSeq(classes, 1, nloaded')) :
         reg' = RegCall("getImpls", <<>>, impls, None, FALSE, "none")

\* what a class may declare: abstract methods, or a type tag
ClassShapes ==
    {[abstract |-> TRUE, tag |-> NoTag], [abstract |-> FALSE, tag |-> NoTag]}
        \cup {[abstract |-> FALSE, tag |-> t] : t \in TagSamples}

\* the names and type tags asked for: "t1", "f", "Z"
QuerySamples == {<<116, 49>>, <<102>>, <<90>>}

SameExactly(a, b) == a = b

\* impl["name"].lower() == name.lower()
SameIgnoringCase(a, b) == Lower(a) = Lower(b)

\* the first descriptor of the list whose name (type tag) matches, or None
ByName(impls, q) ==
    LET hits == {i \in DOMAIN impls : SameIgnoringCase(impls[i].name, q)}
    IN IF hits = {} THEN None ELSE impls[Min(hits)].class

ByType(impls, q) ==
    LET hits == {i \in DOMAIN impls : SameIgnoringCase(impls[i].type, q)}
    IN IF hits = {} THEN None ELSE impls[Min(hits)].class

Lookup(by, impls, q) == IF by = "name" THEN ByName(impls, q) ELSE ByType(impls, q)

\* the loaded classes a call scans after its auto-import
Scanned(auto) == SubSeq(classes, 1, IF auto THEN Len(classes) ELSE nloaded)

\* the classes a lookup may return: one per order in which getImpls()
\* may have listed the descriptors
Answers(by, q, auto) == {Lookup(by, impls, q) : impls \in GetImpls(Scanned(auto))}

\* get_implementation_by_name() and get_implementation_by_type()
GetImplementation(by, q, auto) ==
    /\ AutoImport(auto)
    /\ \E c \in Answers(by, q, auto) :
         reg' = RegCall(IF by = "name" THEN "byName" ELSE "byType", q, <<>>,
                        c, FALSE, "none")

\* create_instance() and create_instance_by_type(): the constructor of the
\* class found runs (and may fail itself); ValueError when none is found
CreateInstance(by, q, auto) ==
    /\ AutoImport(auto)
    /\ \E c \in Answers(by, q, auto), ctorOk \in BOOLEAN :
         reg' = RegCall(IF by = "name" THEN "create" ELSE "createByType",
                        q, <<>>, c, c # None /\ ctorOk,
                        IF c = None THEN "notfound"
                        ELSE IF ctorOk THEN "none" ELSE "ctor")

regFrame ==
    <<store, proc, childPort, crashed, expired, last, allocVars, concVars,
      lifeVars, thrVars, admVars>>

\* discovery over class hierarchies with multiple inheritance; modules are
\* imported by the auto-import of the calls
NextRegistry ==
    \/ \E b \in SUBSET ({Contract} \cup (1..MaxClasses)), a \in BOOLEAN :
            DefineClass(b, a, NoTag) /\ UNCHANGED regFrame
    \/ \E auto \in BOOLEAN : DiscoverImpls(auto) /\ UNCHANGED regFrame

SpecRegistry == Init /\ [][NextRegistry]_vars

\* lookups over single-inheritance hierarchies whose classes may declare
\* a type tag; modules are imported by the auto-import of the calls
NextLookup ==
    \/ \E b \in {Contract} \cup (1..MaxLookupClasses), sh \in ClassShapes :
            /\ Len(classes) < MaxLookupClasses
            /\ DefineClass({b}, sh.abstract, sh.tag)
            /\ UNCHANGED regFrame
    \/ \E by \in {"name", "type"}, q \in QuerySamples, auto \in BOOLEAN :
            GetImplementation(by, q, auto) /\ UNCHANGED regFrame
    \/ \E by \in {"name", "type"}, q \in QuerySamples, auto \in BOOLEAN :
            CreateInstance(by, q, auto) /\ UNCHANGED regFrame

SpecLookup == Init /\ [][NextLookup]_vars

\* a loaded class implements the contract if the contract is among its
\* ancestors
RECURSIVE Implements(_, _)
Implements(cs, k) ==
    \/ Contract \in cs[k].bases
    \/ \E b \in cs[k].bases \ {Contract} : Implements(cs, b)

Times(impls, k) == Cardinality({i \in DOMAIN impls : impls[i].class = k})

Discovered == {k \in 1..nloaded : Implements(Loaded, k) /\ ~classes[k].abstract}

NameHits(q) == {k \in Discovered : Lower(ClassName(k)) = Lower(q)}

TypeHits(q) == {k \in Discovered : Lower(ImplType(Loaded, k)) = Lower(q)}

LookupRight(hits, ans) == IF hits = {} THEN ans = None ELSE ans \in hits

\* C22: the lookups by name and by type return a discovered class whose
\* name (type tag) equals the argument ignoring letter case, and None when
\* no descriptor matches; the constructing calls raise the not-found error,
\* and create no instance, exactly when the lookup returns None.
C22_LookupAndConstruct ==
    /\ reg.op \in {"byName", "create"} => LookupRight(NameHits(reg.arg), reg.ans)
    /\ reg.op \in {"byType", "createByType"} => LookupRight(TypeHits(reg.arg), reg.ans)
    /\ reg.op \in {"create", "createByType"} =>
         /\ (reg.err = "notfound") <=> (reg.ans = None)
         /\ reg.ans = None => ~reg.made
         /\ reg.err = "none" => reg.made

\* an instance was built of a class found under a name spelled in another
\* letter case
C22_Witness ==
    /\ reg.op = "create" /\ reg.made
    /\ reg.ans \in 1..nloaded
    /\ ClassName(reg.ans) # reg.arg
    /\ Lower(ClassName(reg.ans)) = Lower(reg.arg)

\* ------------------------------------------- the reservation, step by step
\* C23: a reservation is atomic: in no state is a port in used_ports while
\* no proxy key holds it, and no proxy key exists without an expiry.
C23_ReserveAtomic ==
    /\ \A p \in store.used : \E n \in Names : store.map[n] = p
    /\ \A n \in Names : store.map[n] # None => store.ttl[n] >= 1

\* ------------------------------------------- the port the child was given
\* C24: while the child of an FRP tunnel runs, get_tunnel_info() reports
\* the remote port that was handed to the child when it was spawned.
C24_InfoReportsChildPort ==
    (last.op = "info" /\ IsRunning(last.name) /\ last.res # Raise) =>
        last.res = childPort[last.name]

\* C25: under sequential start() and stop() calls the port a live child
\* was spawned with is in used_ports: it is reserved before the spawn and
\* released only after the child has gone.
C25_LiveChildPortReserved ==
    \A n \in Names :
        (proc[n] = "alive" /\ childPort[n] # None) => childPort[n] \in store.used

\* a stop() has released its port while the child of the other tunnel,
\* spawned with another port, is alive
C25_Witness ==
    /\ last.op = "stop" /\ last.arg # None
    /\ last.arg \notin store.used
    /\ \E n \in Names \ {last.name} :
         /\ proc[n] = "alive"
         /\ childPort[n] \in store.used

\* C26: a start() of an FRP tunnel that fails because the child could not
\* be spawned leaves the store as it was before the call.
C26_SpawnFailureLeavesStore ==
    (last.op = "start" /\ ctx.fault = "spawnfail" /\ Kind(last.name) = "frp") =>
        store = last.pre

\* ------------------------------------- two threads on one tunnel instance
\* start() of both backends reads self._process, calls subprocess.Popen and
\* stores the result in self._process; nothing keeps a second thread from
\* running the same statements in between.  Children are numbered in the
\* order they are spawned.
MaxSpawns == 3                   \* children spawned in one behaviour

MaySpawnAlways(h) == TRUE

\* the test `self._process is None` at the top of start()
MaySpawn(h) == h = None

Busy(th) == tpc[th] \in {"spawn", "assign"}

thrFrame ==
    <<store, proc, childPort, crashed, expired, last, allocVars, concVars,
      lifeVars, regVars, admVars>>

\* start() is entered and self._process is read; a recorded handle makes
\* the call return False at once
TEnter(th) ==
    /\ ~Busy(th)
    /\ tpc' = [tpc EXCEPT ![th] = IF MaySpawn(handle) THEN "spawn" ELSE "false"]
    /\ toverlap' = (toverlap \/ \E o \in Threads \ {th} : Busy(o))
    /\ UNCHANGED <<tchild, handle, alive, nspawn, thrFrame>>

\* subprocess.Popen returns a new child, or raises and start() returns False
TSpawn(th) ==
    /\ tpc[th] = "spawn"
    /\ nspawn < MaxSpawns
    /\ \E spawned \in BOOLEAN :
         IF spawned
         THEN /\ nspawn' = nspawn + 1
              /\ alive' = alive \cup {nspawn + 1}
              /\ tchild' = [tchild EXCEPT ![th] = nspawn + 1]
              /\ tpc' = [tpc EXCEPT ![th] = "assign"]
         ELSE /\ tpc' = [tpc EXCEPT ![th] = "false"]
              /\ UNCHANGED <<nspawn, alive, tchild>>
    /\ UNCHANGED <<handle, toverlap, thrFrame>>

\* the result of Popen is stored in self._process; start() returns True
TAssign(th) ==
    /\ tpc[th] = "assign"
    /\ handle' = tchild[th]
    /\ tchild' = [tchild EXCEPT ![th] = None]
    /\ tpc' = [tpc EXCEPT ![th] = "true"]
    /\ UNCHANGED <<alive, nspawn, toverlap, thrFrame>>

\* stop(): the child of the recorded handle is terminated, the handle cleared
TStop(th) ==
    /\ ~Busy(th)
    /\ alive' = alive \ {handle}
    /\ handle' = None
    /\ tpc' = [tpc EXCEPT ![th] = "idle"]
    /\ toverlap' = (toverlap \/ \E o \in Threads \ {th} : Busy(o))
    /\ UNCHANGED <<tchild, nspawn, thrFrame>>

NextThreads ==
    \/ \E th \in Threads : TEnter(th)
    \/ \E th \in Threads : TSpawn(th)
    \/ \E th \in Threads : TAssign(th)
    \/ \E th \in Threads : TStop(th)

SpecThreads == Init /\ [][NextThreads]_vars

OneLiveChild ==
    /\ Cardinality(alive) <= 1
    /\ (\A th \in Threads : ~Busy(th)) => alive \subseteq {handle}

\* C27: a tunnel instance has at most one live child at any time, and once
\* the start() calls have returned every live child is the recorded one,
\* also when two threads call start() on the instance concurrently.
C27_OneLiveChildAlways == OneLiveChild

\* C27 as amended: this holds as long as no call on the instance begins
\* while a start() of another thread is between its handle test and its
\* assignment.
C27_OneLiveChildUnlessOverlap == ~toverlap => OneLiveChild

\* without overlap, one thread has started the tunnel and the start() of
\* the other thread was refused
C27_Witness ==
    /\ ~toverlap
    /\ \E th, o \in Threads : tpc[th] = "true" /\ tpc[o] = "false"
    /\ handle # None
    /\ alive = {handle}

\* --------------------------------------------- remote-port resolution
\* get_remote_port() of the FRP tunnels, called at any time, between
\* stop() calls and while leases run out
\* a proxy of another process, with a name of its own, reserves the free
\* port p under the same prefix (its key is not among those modelled)
ForeignReserve(p) ==
    /\ p \in AllowedPorts \ GetUsedPorts(store)
    /\ store' = SAdd(store, p)
    /\ last' = Call("foreign", "a", p, p, TRUE)
    /\ UNCHANGED <<proc, childPort, crashed, expired, allocVars, concVars, sideVars,
                   lifeVars>>

NextResolve ==
    \/ \E p \in AllowedPorts : ForeignReserve(p)
    \/ \E n \in Names : LResolve(n)
    \/ \E n \in Names : LStop(n)
    \/ Tick

SpecResolve == Init /\ [][NextResolve]_vars

\* C28: while the proxy has a lease, get_remote_port() returns the leased
\* port and changes nothing in the store; without a lease it allocates:
\* the suggested port when that is free and in range, otherwise a free port
\* of the range.
C28_ResolutionPrefersLease ==
    (last.op = "resolve" /\ Kind(last.name) = "frp") =>
        LET leased == last.pre.map[last.name]
            U == last.pre.used
            s == last.arg
        IN IF leased # None
           THEN last.res = leased /\ store = last.pre
           ELSE /\ (s \notin U /\ s \in AllowedPorts) => last.res = s
                /\ last.res # s => last.res \in AllowedPorts \ U

\* C28 as amended: without a lease and with no free port left in the range
\* (the suggestion not being free and in range) the call raises and leaves
\* the store alone; a port that is returned is reserved for the proxy.
C28_ResolutionPrefersLeaseOrRaises ==
    (last.op = "resolve" /\ Kind(last.name) = "frp") =>
        LET leased == last.pre.map[last.name]
            U == last.pre.used
            s == last.arg
        IN IF leased # None
           THEN last.res = leased /\ store = last.pre
           ELSE /\ (s \notin U /\ s \in AllowedPorts) => last.res = s
                /\ last.res # s =>
                     IF AllowedPorts \ U = {}
                     THEN last.res = Raise /\ store = last.pre
                     ELSE last.res \in AllowedPorts \ U
                /\ last.res # Raise =>
                     /\ last.res \in store.used
                     /\ store.map[last.name] = last.res

\* a call made while the proxy had a lease returned the leased port,
\* although another port was suggested and free
C28_Witness ==
    /\ last.op = "resolve" /\ Kind(last.name) = "frp"
    /\ last.pre.map[last.name] # None
    /\ last.arg \in AllowedPorts \ last.pre.used
    /\ last.res = last.pre.map[last.name]
    /\ store = last.pre

\* ------------------------------------------- administrative bulk calls
\* clear_all_ports() and get_all_port_info() over the keys of one prefix.
\* adm.map gives, for each proxy name, the port its key
\* {prefix}:proxy:{name}:port holds; keys are built and taken apart as the
\* strings they are.
Colon == 58                      \* ord(":")
Prefix == <<102, 114, 112>>      \* "frp"

\* f"{prefix}:proxy:{proxy_name}:port"
ProxyKey(prefix, name) ==
    prefix \o <<Colon, 112, 114, 111, 120, 121, Colon>> \o name
           \o <<Colon, 112, 111, 114, 116>>

RECURSIVE SplitFrom(_, _, _)
SplitFrom(s, sep, cur) ==
    IF s = <<>> THEN <<cur>>
    ELSE IF Head(s) = sep THEN <<cur>> \o SplitFrom(Tail(s), sep, <<>>)
    ELSE SplitFrom(Tail(s), sep, Append(cur, Head(s)))

\* str.split(sep)
Split(s, sep) == SplitFrom(s, sep, <<>>)

StartsWith(s, pre) == Len(s) >= Len(pre) /\ SubSeq(s, 1, Len(pre)) = pre

EndsWith(s, post) ==
    Len(s) >= Len(post) /\ SubSeq(s, Len(s) - Len(post) + 1, Len(s)) = post

\* redis KEYS f"{prefix}:proxy:*:port" over the keys that exist
ProxyKeys(st, prefix) ==
    {k \in {ProxyKey(prefix, n) : n \in {m \in AdminNames : st.map[m] # None}} :
        /\ StartsWith(k, prefix \o <<Colon, 112, 114, 111, 120, 121, Colon>>)
        /\ EndsWith(k, <<Colon, 112, 111, 114, 116>>)
        /\ Len(k) >= Len(ProxyKey(prefix, <<>>))}

\* redis GET key
ValueOf(st, prefix, key) ==
    st.map[CHOOSE n \in AdminNames : ProxyKey(prefix, n) = key]

\* the loop over proxy_keys: the name is the third part of the key
RECURSIVE CollectAllocations(_, _, _, _)
CollectAllocations(st, prefix, order, allocs) ==
    IF order = <<>> THEN allocs
    ELSE LET key == Head(order)
             parts == Split(key, Colon)
             port == ValueOf(st, prefix, key)
         IN IF Len(parts) >= 4 /\ port # None
            THEN CollectAllocations(st, prefix, Tail(order),
                     {a \in allocs : a[1] # parts[3]} \cup {<<parts[3], port>>})
            ELSE CollectAllocations(st, prefix, Tail(order), allocs)

AdmCall(op, up, used, allocs, ok) ==
    [op |-> op, up |-> up, used |-> used, allocs |-> allocs, ok |-> ok]

admFrame ==
    <<store, proc, childPort, crashed, expired, last, allocVars, concVars,
      lifeVars, regVars, thrVars>>

\* a tunnel named n allocates and reserves a port (suggestion s)
AReserve(n, s) ==
    /\ \E r \in ChoosePort(adm.used, s) :
         /\ r # Raise
         /\ adm' = [used |-> adm.used \cup {r}, map |-> [adm.map EXCEPT ![n] = r]]
         /\ info' = AdmCall("reserve", TRUE, {}, {}, TRUE)
    /\ UNCHANGED admFrame

\* the tunnel named n releases the port its key holds
ARelease(n) ==
    /\ adm.map[n] # None
    /\ adm' = [used |-> adm.used \ {adm.map[n]}, map |-> [adm.map EXCEPT ![n] = None]]
    /\ info' = AdmCall("release", TRUE, {}, {}, TRUE)
    /\ UNCHANGED admFrame

\* clear_all_ports(): DELETE of the set, KEYS, DELETE of the proxy keys; the
\* store may fail before the first or before the second command
ClearAllPorts(fail) ==
    /\ adm' = CASE fail = "first"  -> adm
                [] fail = "second" -> [adm EXCEPT !.used = {}]
                [] OTHER           -> [used |-> {}, map |-> [n \in AdminNames |-> None]]
    /\ info' = AdmCall("clear", fail = "none", {}, {}, fail = "none")
    /\ UNCHANGED admFrame

\* get_all_port_info(): SMEMBERS, KEYS and one GET per key; any failure of
\* the store gives the empty result
GetAllPortInfo(up) ==
    /\ IF up
       THEN \E order \in Orders(ProxyKeys(adm, Prefix)) :
              info' = AdmCall("info", TRUE, SMembers(adm),
                              CollectAllocations(adm, Prefix, order, {}), TRUE)
       ELSE info' = AdmCall("info", FALSE, {}, {}, TRUE)
    /\ UNCHANGED <<adm, admFrame>>

NextAdmin ==
    \/ \E n \in AdminNames, s \in Suggestions : AReserve(n, s)
    \/ \E n \in AdminNames : ARelease(n)
    \/ \E fail \in {"none", "first", "second"} : ClearAllPorts(fail)
    \/ \E up \in BOOLEAN : GetAllPortInfo(up)

SpecAdmin == Init /\ [][NextAdmin]_vars

\* C29: get_all_port_info() reports the members of used_ports and one
\* entry name -> port for every proxy name that has a key under the
\* prefix, under that full name; when the store fails both are empty.
C29_AllLeasesExact ==
    info.op = "info" =>
        IF info.up
        THEN /\ info.used = adm.used
             /\ info.allocs =
                  {<<n, adm.map[n]>> : n \in {m \in AdminNames : adm.map[m] # None}}
        ELSE info.used = {} /\ info.allocs = {}

\* ------------------------------------------------- the ngrok backend
\* NgrokTunnel.get_tunnel_info(): a dictionary of the instance's own
\* fields; no remote port is resolved
NInfo(t) ==
    /\ last' = Call("info", t, None, None, TRUE)
    /\ ctx' = Ctx(proc[t], "none", FALSE)
    /\ UNCHANGED <<store, proc, childPort, crashed, expired, allocVars, concVars,
                   sideVars, orphan, cachedPort>>

\* an FrpTunnel and an NgrokTunnel of one process, the FrpTunnel filling
\* the store the NgrokTunnel could touch
NextNgrok ==
    \/ NextLife
    \/ \E t \in NgrokNames : NInfo(t)

SpecNgrok == Init /\ [][NextNgrok]_vars

\* C30: no call on an NgrokTunnel (start, stop, get_remote_port,
\* get_tunnel_info, remote_port, __del__) changes the store,
\* get_remote_port() returns the local port, and get_allowed_ports() is
\* 1..65535.
C30_NgrokOutsideAllocator ==
    /\ NgrokGetAllowedPorts = 1..MaxPortNumber
    /\ (last.name \in NgrokNames
          /\ last.op \in {"start", "stop", "resolve", "info", "read", "discard"})
       => /\ store = last.pre
          /\ (last.op = "resolve" => last.res = LocalPort)

\* get_remote_port() of a running NgrokTunnel, called while the store
\* holds a lease of the FrpTunnel
C30_Witness ==
    /\ last.name \in NgrokNames
    /\ last.op = "resolve"
    /\ \E t \in NgrokNames : proc[t] = "alive"
    /\ SMembers(store) # {}

====
